---- MODULE Spec2Model ----
\* A model of pushwrappers (src/pushwrappers/__init__.py): the duration
\* formatter sec_to_hms, the decorators push_exceptions and push_success, and
\* the PushContext capture block with the process-wide sys.stdout/sys.stderr.
\*
\* Conventions of the model
\*   - a Python call result is a record: [kind |-> "return", value |-> v] or
\*     [kind |-> "raise", exc |-> e]; an exception e is [cls |-> .., args |-> <<..>>];
\*   - a number is [kind |-> "int" | "float", val |-> n]; the clock reads whole
\*     seconds, so a float always carries a whole value here (its type, which
\*     is what str.format dispatches on, is kept);
\*   - a stream object is an index into sinks (1 = the real stdout, 2 = the
\*     real stderr, every StringIO() a fresh index); 0 stands for None.
EXTENDS Integers, Sequences, FiniteSets, TLC

VARIABLES
    mode,           \* which component the behaviour exercises: "fmt", "dec", "ctx"
    clock,          \* time.time(), in whole seconds
    notifications,  \* what po.Client().send_message received, in order
    fmt_in,         \* sec_to_hms: the argument of the call
    fmt_out,        \* sec_to_hms: the result of the call
    fmt_pc,         \* sec_to_hms: "call" before the call, "done" after it
    lastCall,       \* decorators: the last wrapper invocation and what the caller saw
    nCalls,         \* decorators: wrapper invocations so far
    sys_stdout,     \* sys.stdout (a sink index)
    sys_stderr,     \* sys.stderr (a sink index)
    sinks,          \* the text every stream object holds
    ctx,            \* the PushContext instances' fields
    exc,            \* the exception in flight in the caller's code, or NoExc
    active,         \* history: entered and not yet left scopes, outermost first
    proper,         \* history: every enter/exit since the outermost entry nested properly
    lastLeft,       \* history: the scope the last step left and how, NoLeft otherwise
    lastExit,       \* history: what the __exit__ call of the last step did, NoExit otherwise
                    \*   (pending: the exception in flight when it was called; sent: the
                    \*   notifications it sent; wout, werr: what the scope's body wrote;
                    \*   pre0, pre1: the text of the pre-scope streams at entry and when
                    \*   __exit__ was called; encl0: the text of the enclosing scope's
                    \*   capture sinks when __exit__ was called)
    nEnters,        \* __enter__ calls so far
    nWrites         \* body writes so far

vars == <<mode, clock, notifications, fmt_in, fmt_out, fmt_pc, lastCall, nCalls,
          sys_stdout, sys_stderr, sinks, ctx, exc, active, proper,
          lastLeft, lastExit, nEnters, nWrites>>

-----------------------------------------------------------------------------
\* Bounds

MaxSecs == 61           \* sec_to_hms is tried on 0..MaxSecs (and the listed values)
MaxClock == 1           \* the clock stops advancing here
MaxCalls == 2           \* decorator invocations in one behaviour
RecursionLimit == 3     \* the interpreter's recursion limit (frames of ret_fn)
MaxEnters == 2          \* __enter__ calls in one behaviour
MaxWrites == 2          \* body writes in one behaviour

-----------------------------------------------------------------------------
\* Python values

NoExc == [cls |-> "none", args |-> <<>>]
Return(v) == [kind |-> "return", value |-> v]
Raise(e) == [kind |-> "raise", exc |-> e]
Exc(c, a) == [cls |-> c, args |-> a]
IntV(n) == [kind |-> "int", val |-> n]
FloatV(n) == [kind |-> "float", val |-> n]

\* isinstance(e, Exception): KeyboardInterrupt, SystemExit and GeneratorExit
\* derive from BaseException only.
IsException(e) == e.cls \notin {"none", "KeyboardInterrupt", "SystemExit", "GeneratorExit"}

\* str(e) of an exception: '' without arguments, the argument's text with one
\* (KeyError shows the repr of its key).
StrOfExc(e) ==
    IF Len(e.args) = 0 THEN ""
    ELSE IF e.cls = "KeyError" THEN "'" \o e.args[1] \o "'"
    ELSE e.args[1]

Digit(d) ==
    CASE d = 0 -> "0" [] d = 1 -> "1" [] d = 2 -> "2" [] d = 3 -> "3"
      [] d = 4 -> "4" [] d = 5 -> "5" [] d = 6 -> "6" [] d = 7 -> "7"
      [] d = 8 -> "8" [] d = 9 -> "9"

RECURSIVE DecStr(_)
DecStr(n) == IF n < 10 THEN Digit(n) ELSE DecStr(n \div 10) \o Digit(n % 10)

RECURSIVE ZeroPad(_, _)
ZeroPad(s, w) == IF Len(s) >= w THEN s ELSE ZeroPad("0" \o s, w)

\* divmod(a, b) keeps the type of a.
DivMod(a, b) == << [kind |-> a.kind, val |-> a.val \div b],
                   [kind |-> a.kind, val |-> a.val % b] >>

\* One replacement field of str.format: the format spec is
\* [zero, width, prec, type], prec = -1 when the spec has no ".precision".
\*   type d: a float is refused (unknown format code), and so is a precision;
\*   type f: an int is converted to float; precision 0 prints no fraction.
FormatField(spec, v) ==
    IF spec.type = "d"
    THEN IF v.kind = "float"
         THEN Raise(Exc("ValueError", <<"Unknown format code 'd' for object of type 'float'">>))
         ELSE IF spec.prec # -1
         THEN Raise(Exc("ValueError", <<"Precision not allowed in integer format specifier">>))
         ELSE Return(ZeroPad(DecStr(v.val), spec.width))
    ELSE Return(ZeroPad(DecStr(v.val), spec.width))

\* The three fields of '{:.02d}:{:02d}:{:02.0f}'.
HoursSpec == [zero |-> FALSE, width |-> 0, prec |-> 2, type |-> "d"]
MinutesSpec == [zero |-> TRUE, width |-> 2, prec |-> -1, type |-> "d"]
SecondsSpec == [zero |-> TRUE, width |-> 2, prec |-> 0, type |-> "f"]

\* sec_to_hms(secs): the fields are formatted left to right and the first one
\* that is refused raises.
sec_to_hms(secs) ==
    LET ms == DivMod(secs, 60)
        hm == DivMod(ms[1], 60)
        h == hm[1]
        m == hm[2]
        s == ms[2]
        fh == FormatField(HoursSpec, h)
        fm == FormatField(MinutesSpec, m)
        fs == FormatField(SecondsSpec, s)
    IN  IF fh.kind = "raise" THEN fh
        ELSE IF fm.kind = "raise" THEN fm
        ELSE IF fs.kind = "raise" THEN fs
        ELSE Return(fh.value \o ":" \o fm.value \o ":" \o fs.value)

\* HH:MM:SS as the specification of the formatter words it.
HHMMSS(n) ==
    ZeroPad(DecStr(n \div 3600), 2) \o ":" \o ZeroPad(DecStr((n \div 60) % 60), 2)
        \o ":" \o ZeroPad(DecStr(n % 60), 2)

\* str(timedelta(seconds = n)) for a whole n below one day: H:MM:SS.
TimedeltaStr(n) ==
    DecStr(n \div 3600) \o ":" \o ZeroPad(DecStr((n \div 60) % 60), 2)
        \o ":" \o ZeroPad(DecStr(n % 60), 2)

\* po.Client().send_message(message, title=title): fire and forget.
send_message(ns, message, title) == Append(ns, [message |-> message, title |-> title])

-----------------------------------------------------------------------------
\* The decorators

\* The callables handed to the decorators (fn.__module__, fn.__name__).
Fns == { [module |-> "__main__", name |-> "job"], [module |-> "tasks", name |-> "sync"] }

FnErrors == { Exc("ValueError", <<"boom">>), Exc("KeyError", <<"k">>),
              Exc("ValueError", <<>>), Exc("KeyboardInterrupt", <<>>) }

\* What a call of fn does: it runs for dur seconds, then returns or raises.
Behaviours == { [res |-> r, dur |-> d] :
                  r \in {Return(42), Return(7)} \cup {Raise(e) : e \in FnErrors},
                  d \in 0..MaxClock }

\* ret_fn with the handler ending in "return None" instead of "raise e": the
\* error is reported and swallowed.
ExceptionsRetFn_Swallow(fn, beh, now, ns) ==
    LET r == beh.res
        title == "Error in " \o fn.module \o ":" \o fn.name \o " after " \o TimedeltaStr(beh.dur)
    IN  IF r.kind = "return"
        THEN [outcome |-> r, notifications |-> ns, clock |-> now + beh.dur, fnCalls |-> 1]
        ELSE IF IsException(r.exc)
        THEN [outcome |-> Return(0),
              notifications |-> send_message(ns, StrOfExc(r.exc), title),
              clock |-> now + beh.dur, fnCalls |-> 1]
        ELSE [outcome |-> r, notifications |-> ns, clock |-> now + beh.dur, fnCalls |-> 1]

\* ret_fn with the report in a finally clause instead of the except clause: a
\* normal return is reported too.
ExceptionsRetFn_Finally(fn, beh, now, ns) ==
    LET r == beh.res
        title == "Error in " \o fn.module \o ":" \o fn.name \o " after " \o TimedeltaStr(beh.dur)
        message == IF r.kind = "raise" THEN StrOfExc(r.exc) ELSE ""
    IN  [outcome |-> r, notifications |-> send_message(ns, message, title),
         clock |-> now + beh.dur, fnCalls |-> 1]

\* push_exceptions.ret_fn(*args, **kwargs), called at time now with ns the
\* notifications sent so far.
ExceptionsRetFn(fn, beh, now, ns) ==
    LET start_time == now
        r == beh.res
        fail_time == now + beh.dur
        exec_time == fail_time - start_time
        title == "Error in " \o fn.module \o ":" \o fn.name \o " after " \o TimedeltaStr(exec_time)
        message == StrOfExc(r.exc)
    IN  IF r.kind = "return"
        THEN [outcome |-> r, notifications |-> ns, clock |-> now + beh.dur, fnCalls |-> 1]
        ELSE IF IsException(r.exc)
        THEN [outcome |-> Raise(r.exc), notifications |-> send_message(ns, message, title),
              clock |-> fail_time, fnCalls |-> 1]
        ELSE [outcome |-> r, notifications |-> ns, clock |-> now + beh.dur, fnCalls |-> 1]

\* push_success.ret_fn(*args, **kwargs) in a frame at the given depth: line 40
\* calls ret_fn itself, so fn is reached only through a frame that returns.
\* A call beyond the interpreter's recursion limit raises RecursionError.
RECURSIVE SuccessRetFn(_, _, _, _, _)
SuccessRetFn(fn, beh, now, ns, depth) ==
    IF depth > RecursionLimit
    THEN [outcome |-> Raise(Exc("RecursionError", <<"maximum recursion depth exceeded">>)),
          notifications |-> ns, clock |-> now, fnCalls |-> 0]
    ELSE LET start_time == now
             inner == SuccessRetFn(fn, beh, now, ns, depth + 1)
             exec_time == inner.clock - start_time
             message == "Completed " \o fn.module \o ":" \o fn.name \o " after " \o TimedeltaStr(exec_time)
         IN  IF inner.outcome.kind = "raise"
             THEN inner
             ELSE [outcome |-> Return(inner.outcome.value),
                   notifications |-> send_message(inner.notifications, message, "Success!"),
                   clock |-> inner.clock, fnCalls |-> inner.fnCalls]

NoCall == [wrapper |-> "none", fn |-> [module |-> "", name |-> ""],
           beh |-> [res |-> Return(0), dur |-> 0], outcome |-> Return(0),
           sent |-> <<>>, fnCalls |-> 0, elapsed |-> 0]

\* The notifications of ns2 that were not yet in ns1.
NewSince(ns1, ns2) == SubSeq(ns2, Len(ns1) + 1, Len(ns2))

-----------------------------------------------------------------------------
\* The capture block

\* The PushContext objects of the caller.
Instances == {"a", "b"}
Labels == {"job"}
Texts == {"", "hello"}
BodyErrors == { Exc("RuntimeError", <<"body failed">>) }

\* PushContext.__init__: every field None ('' for the label).
PushContextInit ==
    [start_time |-> -1, block_label |-> "", old_stdout |-> 0, old_stderr |-> 0,
     my_stdout |-> 0, my_stderr |-> 0]

\* PushContext.__enter__(self, block_label) with the process-wide streams so,
\* se and the stream objects sk: two fresh StringIO() are installed.
EnterOp(self, block_label, now, so, se, sk) ==
    [self |-> [start_time |-> now, block_label |-> block_label,
               old_stdout |-> so, old_stderr |-> se,
               my_stdout |-> Len(sk) + 1, my_stderr |-> Len(sk) + 2],
     sys_stdout |-> Len(sk) + 1,
     sys_stderr |-> Len(sk) + 2,
     sinks |-> sk \o <<"", "">>]

\* The positional arguments __enter__ takes besides self.
EnterArity == 1

\* A call self.__enter__(*args): the arguments are bound to the signature
\* (self, block_label) before the body runs.
CallEnter(self, args, now, so, se, sk) ==
    IF Len(args) # EnterArity
    THEN [result |-> Raise(Exc("TypeError", <<"__enter__() missing 1 required positional argument: 'block_label'">>)),
          self |-> self, sys_stdout |-> so, sys_stderr |-> se, sinks |-> sk]
    ELSE LET e == EnterOp(self, args[1], now, so, se, sk)
         IN  [result |-> Return(0), self |-> e.self, sys_stdout |-> e.sys_stdout,
              sys_stderr |-> e.sys_stderr, sinks |-> e.sinks]

\* PushContext.get_status_message(self).
get_status_message(self, sk) ==
    IF sk[self.my_stderr] # ""
    THEN [status |-> "failed", message |-> sk[self.my_stderr]]
    ELSE [status |-> "succeeded", message |-> sk[self.my_stdout]]

\* __exit__ with the two restoring assignments crossed (sys.stdout =
\* self.old_stderr, sys.stderr = self.old_stdout).
ExitOp_Crossed(self, now, sk, ns) ==
    LET so == self.old_stderr
        se == self.old_stdout
        sm == get_status_message(self, sk)
        target == IF sm.status = "failed" THEN se ELSE so
        hms == sec_to_hms(FloatV(now - self.start_time))
    IN  [result |-> IF hms.kind = "raise" THEN hms ELSE Return(0),
         sys_stdout |-> so, sys_stderr |-> se,
         sinks |-> [sk EXCEPT ![target] = @ \o sm.message],
         notifications |-> ns, status |-> sm.status, message |-> sm.message,
         target |-> target,
         events |-> << [ev |-> "restore", sink |-> 0, text |-> ""],
                       [ev |-> "echo", sink |-> target, text |-> sm.message] >>]

\* PushContext.__exit__(self): restore, classify, echo to the restored stream,
\* then send_message(message, title=...), whose title argument is evaluated
\* (sec_to_hms included) before the send.
ExitOp(self, now, sk, ns) ==
    LET so == self.old_stdout
        se == self.old_stderr
        exectime == FloatV(now - self.start_time)
        sm == get_status_message(self, sk)
        target == IF sm.status = "failed" THEN se ELSE so
        sk2 == [sk EXCEPT ![target] = @ \o sm.message]
        hms == sec_to_hms(exectime)
        restored == [ev |-> "restore", sink |-> 0, text |-> ""]
        echoed == [ev |-> "echo", sink |-> target, text |-> sm.message]
        notified == [ev |-> "notify", sink |-> 0, text |-> sm.message]
    IN  IF hms.kind = "raise"
        THEN [result |-> hms, sys_stdout |-> so, sys_stderr |-> se, sinks |-> sk2,
              notifications |-> ns, status |-> sm.status, message |-> sm.message,
              target |-> target, events |-> <<restored, echoed>>]
        ELSE [result |-> Return(0), sys_stdout |-> so, sys_stderr |-> se, sinks |-> sk2,
              notifications |->
                  send_message(ns, sm.message,
                      self.block_label \o " " \o sm.status \o " after " \o hms.value),
              status |-> sm.status, message |-> sm.message,
              target |-> target, events |-> <<restored, echoed, notified>>]

-----------------------------------------------------------------------------
\* The state machine

NoLeft == [inst |-> "none", out |-> 0, err |-> 0, fresh |-> FALSE, reent |-> FALSE,
           how |-> "none"]
NoExit == [inst |-> "none", pending |-> NoExc, result |-> Return(0), status |-> "",
           message |-> "", target |-> 0, sent |-> <<>>, events |-> <<>>,
           simple |-> FALSE, depth |-> 0, wout |-> "", werr |-> "",
           pre0 |-> <<"", "">>, pre1 |-> <<"", "">>, encl0 |-> <<"", "">>]

FmtInputs == { IntV(n) : n \in (0..MaxSecs) \cup {3599, 3600, 86399} }
                \cup { FloatV(n) : n \in (0..MaxSecs) \cup {3599, 3600, 86399} }

\* The state after import, but for mode and fmt_in: nothing called, the real
\* streams installed.
Idle ==
    /\ clock = 0
    /\ notifications = <<>>
    /\ fmt_out = Return("")
    /\ fmt_pc = "call"
    /\ lastCall = NoCall
    /\ nCalls = 0
    /\ sys_stdout = 1
    /\ sys_stderr = 2
    /\ sinks = <<"", "">>
    /\ ctx = [c \in Instances |-> PushContextInit]
    /\ exc = NoExc
    /\ active = <<>>
    /\ proper = TRUE
    /\ lastLeft = NoLeft
    /\ lastExit = NoExit
    /\ nEnters = 0
    /\ nWrites = 0

decVars == <<lastCall, nCalls>>
fmtVars == <<fmt_in, fmt_out, fmt_pc>>
ctxVars == <<sys_stdout, sys_stderr, sinks, ctx, exc, active, proper,
             lastLeft, lastExit, nEnters, nWrites>>

\* ---- sec_to_hms

Format ==
    /\ mode = "fmt"
    /\ fmt_pc = "call"
    /\ fmt_out' = sec_to_hms(fmt_in)
    /\ fmt_pc' = "done"
    /\ UNCHANGED <<mode, clock, notifications, fmt_in, decVars, ctxVars>>

\* ---- the decorators

\* time.time() moves on between two calls.
Tick ==
    /\ mode = "dec"
    /\ clock < MaxClock
    /\ clock' = clock + 1
    /\ UNCHANGED <<mode, notifications, fmtVars, decVars, ctxVars>>

CallPushExceptions ==
    /\ mode = "dec"
    /\ nCalls < MaxCalls
    /\ \E fn \in Fns, beh \in Behaviours :
         /\ clock + beh.dur <= MaxClock
         /\ LET r == ExceptionsRetFn(fn, beh, clock, notifications)
            IN  /\ clock' = r.clock
                /\ notifications' = r.notifications
                /\ lastCall' = [wrapper |-> "push_exceptions", fn |-> fn, beh |-> beh,
                                outcome |-> r.outcome,
                                sent |-> NewSince(notifications, r.notifications),
                                fnCalls |-> r.fnCalls, elapsed |-> beh.dur]
    /\ nCalls' = nCalls + 1
    /\ UNCHANGED <<mode, fmtVars, ctxVars>>

CallPushSuccess ==
    /\ mode = "dec"
    /\ nCalls < MaxCalls
    /\ \E fn \in Fns, beh \in Behaviours :
         /\ clock + beh.dur <= MaxClock
         /\ LET r == SuccessRetFn(fn, beh, clock, notifications, 1)
            IN  /\ clock' = r.clock
                /\ notifications' = r.notifications
                /\ lastCall' = [wrapper |-> "push_success", fn |-> fn, beh |-> beh,
                                outcome |-> r.outcome,
                                sent |-> NewSince(notifications, r.notifications),
                                fnCalls |-> r.fnCalls, elapsed |-> beh.dur]
    /\ nCalls' = nCalls + 1
    /\ UNCHANGED <<mode, fmtVars, ctxVars>>

\* ---- the capture block

IsActive(c) == \E i \in 1..Len(active) : active[i].inst = c
LastEntry(c) == CHOOSE i \in 1..Len(active) :
                    /\ active[i].inst = c
                    /\ \A j \in (i + 1)..Len(active) : active[j].inst # c
RemoveAt(seq, i) == SubSeq(seq, 1, i - 1) \o SubSeq(seq, i + 1, Len(seq))

\* A statement sys.stdout.write(text) / sys.stderr.write(text) made inside the
\* innermost scope, added to what that scope has been seen to write.
Noted(act, stream, text) ==
    IF act = <<>> THEN act
    ELSE IF stream = "stdout"
    THEN [act EXCEPT ![Len(act)].wout = @ \o text]
    ELSE [act EXCEPT ![Len(act)].werr = @ \o text]

\* The outstanding entries of c are marked once c is entered again.
Reentered(act, c) ==
    [i \in 1..Len(act) |-> IF act[i].inst = c THEN [act[i] EXCEPT !.reent = TRUE] ELSE act[i]]

\* c.__enter__(*args): args = <<label>> is a direct call, args = <<>> is what
\* the with statement passes.
EnterWith(c, args) ==
    /\ exc = NoExc
    /\ nEnters < MaxEnters
    /\ LET r == CallEnter(ctx[c], args, clock, sys_stdout, sys_stderr, sinks)
           entered == r.result.kind = "return"
       IN  /\ ctx' = [ctx EXCEPT ![c] = r.self]
           /\ sys_stdout' = r.sys_stdout
           /\ sys_stderr' = r.sys_stderr
           /\ sinks' = r.sinks
           /\ exc' = IF entered THEN exc ELSE r.result.exc
           /\ active' = IF entered
                        THEN Append(Reentered(active, c),
                                    [inst |-> c, out |-> sys_stdout, err |-> sys_stderr,
                                     fresh |-> ~IsActive(c), reent |-> FALSE,
                                     wout |-> "", werr |-> "",
                                     pre0 |-> <<sinks[sys_stdout], sinks[sys_stderr]>>])
                        ELSE active
           /\ proper' = IF ~entered THEN proper
                        ELSE IF active = <<>> THEN TRUE ELSE proper /\ ~IsActive(c)
    /\ nEnters' = nEnters + 1
    /\ lastLeft' = NoLeft
    /\ lastExit' = NoExit
    /\ UNCHANGED <<mode, clock, notifications, fmtVars, decVars, nWrites>>

\* c.__enter__(label), called directly.
Enter ==
    /\ mode = "ctx"
    /\ \E c \in Instances, label \in Labels : EnterWith(c, <<label>>)

\* with c: ... -- the with statement calls c.__enter__() without arguments.
WithStatement ==
    /\ mode = "ctx"
    /\ \E c \in Instances : EnterWith(c, <<>>)

\* The caller's code works for a second, then writes to sys.stdout or
\* sys.stderr.
Write ==
    /\ mode = "ctx"
    /\ exc = NoExc
    /\ nWrites < MaxWrites
    /\ \E stream \in {"stdout", "stderr"}, text \in Texts :
         LET target == IF stream = "stdout" THEN sys_stdout ELSE sys_stderr
         IN  /\ sinks' = [sinks EXCEPT ![target] = @ \o text]
             /\ active' = Noted(active, stream, text)
    /\ clock' = IF clock < MaxClock THEN clock + 1 ELSE clock
    /\ nWrites' = nWrites + 1
    /\ lastLeft' = NoLeft
    /\ lastExit' = NoExit
    /\ UNCHANGED <<mode, notifications, fmtVars, decVars, sys_stdout, sys_stderr,
                   ctx, exc, proper, nEnters>>

\* The body of the innermost scope raises.
BodyRaise ==
    /\ mode = "ctx"
    /\ exc = NoExc
    /\ active # <<>>
    /\ \E e \in BodyErrors : exc' = e
    /\ lastLeft' = NoLeft
    /\ lastExit' = NoExit
    /\ UNCHANGED <<mode, clock, notifications, fmtVars, decVars, sys_stdout, sys_stderr,
                   sinks, ctx, active, proper, nEnters, nWrites>>

\* The exception in flight leaves the innermost scope; nothing in the module
\* runs on that path (no try/finally, and the with statement cannot be used).
Unwind ==
    /\ mode = "ctx"
    /\ exc # NoExc
    /\ active # <<>>
    /\ LET top == active[Len(active)]
       IN  lastLeft' = [inst |-> top.inst, out |-> top.out, err |-> top.err,
                        fresh |-> top.fresh, reent |-> top.reent, how |-> "unwind"]
    /\ active' = SubSeq(active, 1, Len(active) - 1)
    /\ proper' = FALSE
    /\ lastExit' = NoExit
    /\ UNCHANGED <<mode, clock, notifications, fmtVars, decVars, sys_stdout, sys_stderr,
                   sinks, ctx, exc, nEnters, nWrites>>

\* The caller's code handles the exception in flight.
Catch ==
    /\ mode = "ctx"
    /\ exc # NoExc
    /\ exc' = NoExc
    /\ lastLeft' = NoLeft
    /\ lastExit' = NoExit
    /\ UNCHANGED <<mode, clock, notifications, fmtVars, decVars, sys_stdout, sys_stderr,
                   sinks, ctx, active, proper, nEnters, nWrites>>

\* c.__exit__(), called by the caller for the latest outstanding entry of c,
\* after the body or from a finally clause while an exception is in flight.
\* An exception __exit__ raises replaces the one in flight.
Exit ==
    /\ mode = "ctx"
    /\ \E c \in Instances :
         /\ IsActive(c)
         /\ LET idx == LastEntry(c)
                entry == active[idx]
                r == ExitOp(ctx[c], clock, sinks, notifications)
                rest == RemoveAt(active, idx)
            IN  /\ sys_stdout' = r.sys_stdout
                /\ sys_stderr' = r.sys_stderr
                /\ sinks' = r.sinks
                /\ notifications' = r.notifications
                /\ exc' = IF r.result.kind = "raise" THEN r.result.exc ELSE exc
                /\ active' = Noted(rest, IF r.status = "failed" THEN "stderr" ELSE "stdout",
                                   r.message)
                /\ proper' = (proper /\ idx = Len(active))
                /\ lastLeft' = [inst |-> c, out |-> entry.out, err |-> entry.err,
                                fresh |-> entry.fresh, reent |-> entry.reent, how |-> "exit"]
                /\ lastExit' = [inst |-> c, pending |-> exc, result |-> r.result,
                                status |-> r.status, message |-> r.message,
                                target |-> r.target,
                                sent |-> NewSince(notifications, r.notifications),
                                events |-> r.events,
                                simple |-> proper /\ idx = Len(active) /\ entry.fresh
                                             /\ ~entry.reent,
                                depth |-> Len(active),
                                wout |-> entry.wout, werr |-> entry.werr,
                                pre0 |-> entry.pre0,
                                pre1 |-> <<sinks[entry.out], sinks[entry.err]>>,
                                encl0 |-> IF rest = <<>> THEN <<"", "">>
                                          ELSE <<sinks[ctx[rest[Len(rest)].inst].my_stdout],
                                                 sinks[ctx[rest[Len(rest)].inst].my_stderr]>>]
    /\ UNCHANGED <<mode, clock, fmtVars, decVars, ctx, nEnters, nWrites>>

\* ---- the specifications

InitFmt == mode = "fmt" /\ fmt_in \in FmtInputs /\ Idle
InitDec == mode = "dec" /\ fmt_in = IntV(0) /\ Idle
InitCtx == mode = "ctx" /\ fmt_in = IntV(0) /\ Idle

NextFmt == Format
NextDec == CallPushExceptions \/ CallPushSuccess \/ Tick
NextCtx == Enter \/ WithStatement \/ Write \/ BodyRaise \/ Unwind \/ Catch \/ Exit

SpecFmt == InitFmt /\ [][NextFmt]_vars
SpecDec == InitDec /\ [][NextDec]_vars
SpecCtx == InitCtx /\ [][NextCtx]_vars

-----------------------------------------------------------------------------
\* The claims

\* The examples the specification lists for the formatter.
FormatExamples == { <<0, "00:00:00">>, <<59, "00:00:59">>, <<60, "00:01:00">>,
                    <<3599, "00:59:59">>, <<3600, "01:00:00">>, <<86399, "23:59:59">> }

\* C8: for every non-negative integer s, sec_to_hms(s) returns, without an
\* error, HH:MM:SS with HH = s div 3600 padded to two digits, MM = (s div 60)
\* mod 60 and SS = s mod 60 as two digits; the listed examples included.
C8_FormatsHHMMSS ==
    (fmt_pc = "done" /\ fmt_in.kind = "int") =>
        /\ fmt_out = Return(HHMMSS(fmt_in.val))
        /\ \A ex \in FormatExamples : fmt_in.val = ex[1] => fmt_out = Return(ex[2])

\* C2: when fn raises an error under push_exceptions, exactly one notification
\* is sent, its message the error's text and its title naming fn's module and
\* name, and the caller then sees the very error fn raised.
C2_ErrorReportedAndReraised ==
    (/\ lastCall.wrapper = "push_exceptions"
     /\ lastCall.beh.res.kind = "raise"
     /\ IsException(lastCall.beh.res.exc)) =>
        LET e == lastCall.beh.res.exc
        IN  /\ lastCall.fnCalls = 1
            /\ Len(lastCall.sent) = 1
            /\ lastCall.sent[1].message = StrOfExc(e)
            /\ (e = Exc("ValueError", <<"boom">>) => lastCall.sent[1].message = "boom")
            /\ lastCall.sent[1].title =
                   "Error in " \o lastCall.fn.module \o ":" \o lastCall.fn.name
                       \o " after " \o TimedeltaStr(lastCall.elapsed)
            /\ lastCall.outcome = Raise(e)

C2_Witness ==
    /\ lastCall.wrapper = "push_exceptions"
    /\ lastCall.beh.res = Raise(Exc("ValueError", <<"boom">>))
    /\ lastCall.elapsed = 1
    /\ lastCall.sent = << [message |-> "boom", title |-> "Error in tasks:sync after 0:00:01"] >>
    /\ lastCall.outcome = Raise(Exc("ValueError", <<"boom">>))

\* C3: when fn returns v under push_exceptions, the wrapper returns exactly v
\* and no notification is sent.
C3_ResultPassedThrough ==
    (lastCall.wrapper = "push_exceptions" /\ lastCall.beh.res.kind = "return") =>
        /\ lastCall.fnCalls = 1
        /\ lastCall.outcome = lastCall.beh.res
        /\ lastCall.sent = <<>>

C3_Witness ==
    /\ lastCall.wrapper = "push_exceptions"
    /\ lastCall.beh.res = Return(42)
    /\ lastCall.outcome = Return(42)
    /\ nCalls = 2
    /\ Len(notifications) = 1

\* C4: a call of the push_success wrapper in which fn would return v
\* completes: fn is invoked once, exactly one notification titled "Success!"
\* with message "Completed {module}:{name} after {elapsed}" is sent, and the
\* wrapper returns v.
C4_SuccessReported ==
    (lastCall.wrapper = "push_success" /\ lastCall.beh.res.kind = "return") =>
        /\ lastCall.fnCalls = 1
        /\ lastCall.outcome = lastCall.beh.res
        /\ lastCall.sent =
               << [message |-> "Completed " \o lastCall.fn.module \o ":" \o lastCall.fn.name
                                   \o " after " \o TimedeltaStr(lastCall.elapsed),
                   title |-> "Success!"] >>

\* C5: when fn raises under push_success, that error reaches the wrapper's
\* caller and no notification is sent.
C5_ErrorPropagatesUnreported ==
    (lastCall.wrapper = "push_success" /\ lastCall.beh.res.kind = "raise") =>
        /\ lastCall.outcome = lastCall.beh.res
        /\ lastCall.sent = <<>>

\* C1: whenever a scope entered with a label on a fresh instance has been
\* left, by its exit step or by an error of its body, sys.stdout and
\* sys.stderr are the streams that were in place right before its entry.
C1_SinksRestoredOnEveryExitPath ==
    (lastLeft.how # "none" /\ lastLeft.fresh /\ ~lastLeft.reent) =>
        /\ sys_stdout = lastLeft.out
        /\ sys_stderr = lastLeft.err

\* What does hold of C1: when __exit__ is called, it restores.
RestoredWhenExitRuns ==
    (lastLeft.how = "exit" /\ lastLeft.fresh /\ ~lastLeft.reent) =>
        /\ sys_stdout = lastLeft.out
        /\ sys_stderr = lastLeft.err

\* C6: at the exit of a scope the outcome is 'failed' exactly when the body
\* wrote something non-empty to stderr, and the notification then carries the
\* stderr writes concatenated; otherwise it is 'succeeded' and the
\* notification carries the stdout writes concatenated.
C6_NotifiedByContent ==
    lastExit.simple =>
        LET failed == lastExit.werr # ""
        IN  /\ lastExit.status = IF failed THEN "failed" ELSE "succeeded"
            /\ Len(lastExit.sent) = 1
            /\ lastExit.sent[1].message = IF failed THEN lastExit.werr ELSE lastExit.wout

\* What does hold of C6: the classification computed by get_status_message.
ClassifiedByContent ==
    lastExit.simple =>
        LET failed == lastExit.werr # ""
        IN  /\ lastExit.status = IF failed THEN "failed" ELSE "succeeded"
            /\ lastExit.message = IF failed THEN lastExit.werr ELSE lastExit.wout

\* C7: when the body raised, the exit step sends exactly one notification for
\* the scope and the body's error is still the one in flight afterwards.
C7_BodyErrorSurvivesExit ==
    (lastExit.inst # "none" /\ lastExit.pending \in BodyErrors) =>
        /\ Len(lastExit.sent) = 1
        /\ exc = lastExit.pending

\* C9: the exit step restores, then echoes, then notifies; the echo goes to
\* the restored stderr when 'failed' and to the restored stdout when
\* 'succeeded', its text is the notified message, and the body's writes
\* reached neither pre-scope stream.
C9_RestoreEchoNotify ==
    lastExit.simple =>
        /\ Len(lastExit.events) = 3
        /\ lastExit.events[1].ev = "restore"
        /\ lastExit.events[2].ev = "echo"
        /\ lastExit.events[3].ev = "notify"
        /\ lastExit.events[2].sink =
               IF lastExit.status = "failed" THEN lastLeft.err ELSE lastLeft.out
        /\ Len(lastExit.sent) = 1
        /\ lastExit.sent[1].message = lastExit.events[2].text
        /\ lastExit.pre1 = lastExit.pre0

\* What does hold of C9: everything up to the notification.
RestoredThenEchoed ==
    lastExit.simple =>
        /\ Len(lastExit.events) >= 2
        /\ lastExit.events[1].ev = "restore"
        /\ lastExit.events[2].ev = "echo"
        /\ lastExit.events[2].sink =
               IF lastExit.status = "failed" THEN lastLeft.err ELSE lastLeft.out
        /\ lastExit.events[2].text = lastExit.message
        /\ lastExit.pre1 = lastExit.pre0
        /\ sinks[lastExit.target] =
               (IF lastExit.status = "failed" THEN lastExit.pre1[2] ELSE lastExit.pre1[1])
                   \o lastExit.message

\* C10: (a) in a properly nested sequence of enters and exits on distinct
\* instances every exit puts back the streams of before its entry, so after
\* the last one the streams of before the outermost entry are in place;
\* (b) an inner scope's echo is appended to the enclosing scope's capture
\* sink; (c) an instance entered again while entered has lost the streams its
\* first entry saved, and they are not in place after its last exit.
C10_NestingAndReentry ==
    /\ (lastLeft.how = "exit" /\ proper) =>
           /\ sys_stdout = lastLeft.out
           /\ sys_stderr = lastLeft.err
    /\ (lastExit.inst # "none" /\ proper /\ lastExit.depth >= 2) =>
           LET encl == ctx[active[Len(active)].inst]
               failed == lastExit.status = "failed"
           IN  /\ lastExit.target = IF failed THEN encl.my_stderr ELSE encl.my_stdout
               /\ sinks[encl.my_stdout] =
                      lastExit.encl0[1] \o (IF failed THEN "" ELSE lastExit.message)
               /\ sinks[encl.my_stderr] =
                      lastExit.encl0[2] \o (IF failed THEN lastExit.message ELSE "")
    /\ \A i \in 1..Len(active) :
           (active[i].fresh /\ active[i].reent) =>
               /\ ctx[active[i].inst].old_stdout # active[i].out
               /\ ctx[active[i].inst].old_stderr # active[i].err
    /\ (lastLeft.how = "exit" /\ lastLeft.fresh /\ lastLeft.reent) =>
           /\ sys_stdout # lastLeft.out
           /\ sys_stderr # lastLeft.err

\* An inner scope has just exited, properly nested, its non-empty echo
\* appended to what the enclosing scope had already captured.
C10_Witness ==
    /\ lastExit.inst # "none"
    /\ proper
    /\ lastExit.depth = 2
    /\ lastExit.status = "failed"
    /\ lastExit.message = "hello"
    /\ lastExit.encl0 = <<"", "hello">>
    /\ sinks[ctx[active[1].inst].my_stderr] = "hellohello"

\* The same instance was entered twice and has exited twice.
ReentryReached ==
    /\ lastLeft.how = "exit" /\ lastLeft.fresh /\ lastLeft.reent
    /\ active = <<>>

====
